---------------------------- MODULE Spec2Model ----------------------------
(***************************************************************************)
(* A model of transformer_lens.HookedEncoderDecoder (the T5 style hooked   *)
(* model) and of the FactoredMatrix products its tests exercise.           *)
(*                                                                         *)
(* Spec   : one HookedEncoderDecoder object; its constructor,              *)
(*          from_pretrained, forward, run_with_cache and all_head_labels   *)
(*          are run statement by statement by a single Python thread.      *)
(* SpecFM : FactoredMatrix(A, B) multiplied by a vector on either side.    *)
(***************************************************************************)
EXTENDS Integers, Sequences, FiniteSets, TLC

VARIABLES
    pc,         \* position of the Python thread
    args,       \* arguments of the call being executed (a record)
    locals,     \* local variables of the call being executed (a record)
    cfg,        \* self.cfg of the object under construction / constructed
    built,      \* TRUE once __init__ has returned an object
    tokenizer,  \* self.tokenizer: "unset", "none", "given" or "loaded"
    modules,    \* names of the submodules created so far, in creation order
    hook_dict,  \* hook point names discovered by setup()
    hooks,      \* hook point name -> set of hooks attached to it
    log,        \* calls made by the operation being executed, in order
    ret,        \* outcome of the last finished top-level call
    run,        \* frame of the hooked run (run_with_cache) around forward
    fm          \* state of the FactoredMatrix scenario

vars == <<pc, args, locals, cfg, built, tokenizer, modules, hook_dict, hooks, log, ret, run, fm>>

modelVars == <<pc, args, locals, cfg, built, tokenizer, modules, hook_dict, hooks, log, ret, run>>

----------------------------------------------------------------------------
(* Bounds of the model. *)

MaxLayers == 2
MaxHeads == 2
MaxPos == 2

(* max(self.tokenizer.vocab.values()) of the tokenizer the model uses. *)
TokenizerMaxId == 4

(* A d_vocab given explicitly in the config. *)
GivenVocab == 3

----------------------------------------------------------------------------
(* Python values. *)

None == [some |-> FALSE]
Some(v) == [some |-> TRUE, val |-> v]

(* An optional boolean keyword argument: left out, or given. *)
OptBool == {None, Some(FALSE), Some(TRUE)}

(* The value of a keyword argument, its default when it is left out. *)
Default(kw, default) == IF kw = None THEN default ELSE kw.val

NoRet == [kind |-> "none"]
Return(v) == [kind |-> "return", val |-> v]
Raise(exc, msg) == [kind |-> "raise", exc |-> exc, msg |-> msg]

NoArgs == [op |-> "none"]
NoLocals == [none |-> TRUE]
NoCfg == [kind |-> "none"]
NoRun == [active |-> FALSE]

(* A call the running operation makes, as the log records it. *)
Ev(name) == [call |-> name]

Called(name) == \E i \in 1 .. Len(log) : log[i].call = name

Range(n) == 0 .. (n - 1)

----------------------------------------------------------------------------
(* HookedEncoderDecoder.__init__ *)

Devices == {"cpu", "cuda"}
CfgDevices == {"cpu"}

(* Names under which named_modules() finds the hook points of the model:   *)
(* hook_full_embed of the model itself and the hook points of each block.  *)
HookNames(n_layers) ==
    {"hook_full_embed"}
        \cup {"encoder." \o ToString(l) \o ".hook_resid_post" : l \in Range(n_layers)}
        \cup {"decoder." \o ToString(l) \o ".hook_resid_post" : l \in Range(n_layers)}

(* The configurations and arguments a caller may construct the model with. *)
InitArgs ==
    [op : {"__init__"}, caller : {"user"},
     cfg_kind : {"dict", "config"},
     n_devices : {1, 2},
     n_layers : 1 .. MaxLayers,
     n_heads : 1 .. MaxHeads,
     d_vocab : {-1, GivenVocab},
     d_vocab_out : {-1, GivenVocab},
     tokenizer_name : {"None", "t5-small"},
     device : CfgDevices,
     tokenizer : {"None", "given"},
     move_to_device : BOOLEAN]
    \cup
    [op : {"__init__"}, caller : {"user"},
     cfg_kind : {"str"},
     n_devices : {1}, n_layers : {1}, n_heads : {1},
     d_vocab : {GivenVocab}, d_vocab_out : {GivenVocab},
     tokenizer_name : {"None"}, device : {"cpu"},
     tokenizer : {"None", "given"},
     move_to_device : BOOLEAN]

CfgOf(a) ==
    [kind |-> "config", n_devices |-> a.n_devices, n_layers |-> a.n_layers,
     n_heads |-> a.n_heads, d_vocab |-> a.d_vocab, d_vocab_out |-> a.d_vocab_out,
     tokenizer_name |-> a.tokenizer_name, device |-> a.device]

(* An exception leaves the call: the object under construction (if any) is *)
(* dropped and the exception reaches the top-level caller.                 *)
Fail(exc, msg) ==
    /\ pc' = "done"
    /\ ret' = Raise(exc, msg)
    /\ args' = args
    /\ locals' = NoLocals
    /\ IF built
         THEN UNCHANGED <<cfg, built, tokenizer, modules, hook_dict>>
         ELSE /\ cfg' = NoCfg
              /\ built' = FALSE
              /\ tokenizer' = "unset"
              /\ modules' = <<>>
              /\ hook_dict' = {}

(* cls(cfg, tokenizer, ...) called by the user. *)
CallInit ==
    /\ pc = "idle"
    /\ ~built
    /\ \E a \in InitArgs : args' = a
    /\ pc' = "init_cfg"
    /\ log' = <<>>
    /\ ret' = NoRet
    /\ UNCHANGED <<locals, cfg, built, tokenizer, modules, hook_dict, hooks, run, fm>>

(* isinstance(cfg, str) *)
CfgIsStr_NoCheck(kind) == FALSE

CfgIsStr(kind) == kind = "str"

(* lines 49-56: super().__init__(), the conversion of cfg, self.cfg = cfg *)
InitCfg ==
    /\ pc = "init_cfg"
    /\ IF args.cfg_kind = "dict"
         THEN /\ log' = log \o <<Ev("HookedRootModule.__init__"), Ev("HookedTransformerConfig")>>
              /\ cfg' = CfgOf(args)
              /\ pc' = "init_devices"
              /\ UNCHANGED <<args, locals, built, tokenizer, modules, hook_dict, ret>>
         ELSE IF CfgIsStr(args.cfg_kind)
           THEN /\ log' = log \o <<Ev("HookedRootModule.__init__")>>
                /\ Fail("ValueError",
                        "Please pass in a config dictionary or HookedTransformerConfig object. If you want to load a pretrained model, use HookedEncoderDecoder.from_pretrained() instead.")
           ELSE /\ log' = log \o <<Ev("HookedRootModule.__init__")>>
                /\ cfg' = CfgOf(args)
                /\ pc' = "init_devices"
                /\ UNCHANGED <<args, locals, built, tokenizer, modules, hook_dict, ret>>
    /\ UNCHANGED <<hooks, run, fm>>

(* lines 58-60: assert self.cfg.n_devices == 1 *)
InitDevices ==
    /\ pc = "init_devices"
    /\ IF cfg.n_devices = 1
         THEN /\ pc' = "init_tokenizer"
              /\ UNCHANGED <<args, locals, cfg, built, tokenizer, modules, hook_dict, ret>>
         ELSE Fail("AssertionError", "Multiple devices not supported for HookedEncoderDecoder")
    /\ UNCHANGED <<hooks, log, run, fm>>

(* lines 61-70: the tokenizer passed in, or the one cfg.tokenizer_name names *)
InitTokenizer ==
    /\ pc = "init_tokenizer"
    /\ IF args.tokenizer # "None"
         THEN tokenizer' = "given" /\ log' = log
         ELSE IF cfg.tokenizer_name # "None"
           THEN tokenizer' = "loaded" /\ log' = Append(log, Ev("AutoTokenizer.from_pretrained"))
           ELSE tokenizer' = "none" /\ log' = log
    /\ pc' = "init_vocab"
    /\ UNCHANGED <<args, locals, cfg, built, modules, hook_dict, hooks, ret, run, fm>>

(* lines 72-79: d_vocab and d_vocab_out inferred when they are -1 *)
InitVocab ==
    /\ pc = "init_vocab"
    /\ IF cfg.d_vocab = -1 /\ tokenizer = "none"
         THEN Fail("AssertionError", "Must provide a tokenizer if d_vocab is not provided")
         ELSE LET dv == IF cfg.d_vocab = -1 THEN TokenizerMaxId + 1 ELSE cfg.d_vocab
                  dvo == IF cfg.d_vocab_out = -1 THEN dv ELSE cfg.d_vocab_out
              IN  /\ cfg' = [cfg EXCEPT !.d_vocab = dv, !.d_vocab_out = dvo]
                  /\ pc' = "init_modules"
                  /\ UNCHANGED <<args, locals, built, tokenizer, modules, hook_dict, ret>>
    /\ UNCHANGED <<hooks, log, run, fm>>

EncoderBlocks(n) == [l \in 1 .. n |-> "encoder." \o ToString(l - 1)]
DecoderBlocks(n) == [l \in 1 .. n |-> "decoder." \o ToString(l - 1)]

(* lines 81-99: the submodules, in the order the constructor creates them *)
InitModules ==
    /\ pc = "init_modules"
    /\ modules' = <<"embed">> \o EncoderBlocks(cfg.n_layers) \o <<"encoder_final_ln">>
                    \o DecoderBlocks(cfg.n_layers)
                    \o <<"decoder_final_ln", "unembed", "hook_full_embed">>
    /\ pc' = "init_to"
    /\ UNCHANGED <<args, locals, cfg, built, tokenizer, hook_dict, hooks, log, ret, run, fm>>

(* lines 101-102: if move_to_device: self.to(self.cfg.device) *)
InitTo ==
    /\ pc = "init_to"
    /\ log' = IF args.move_to_device THEN Append(log, Ev("to")) ELSE log
    /\ pc' = "init_setup"
    /\ UNCHANGED <<args, locals, cfg, built, tokenizer, modules, hook_dict, hooks, ret, run, fm>>

(* line 104: self.setup() discovers the hook points; __init__ returns *)
InitSetup ==
    /\ pc = "init_setup"
    /\ log' = Append(log, Ev("setup"))
    /\ hook_dict' = HookNames(cfg.n_layers)
    /\ hooks' = [h \in HookNames(cfg.n_layers) |-> {}]
    /\ built' = TRUE
    /\ IF args.caller = "user"
         THEN /\ pc' = "done"
              /\ ret' = Return("model")
              /\ UNCHANGED <<args, locals>>
         ELSE /\ pc' = "fp_load_state_dict"
              /\ args' = locals.saved_args
              /\ locals' = locals.saved_locals
              /\ UNCHANGED ret
    /\ UNCHANGED <<cfg, tokenizer, modules, run, fm>>

----------------------------------------------------------------------------
(* Hook points. A hook is "perma" (attached by the user for good), "cache"  *)
(* (attached by run_with_cache to record the value) or "fwd" (attached by   *)
(* run_with_hooks to patch the value).                                      *)

TempHooks == {"cache", "fwd"}

(* Tensors are terms: App("embed", "input") is the tensor embed(input). *)
App(f, x) == f \o "(" \o x \o ")"
App2(f, x, y) == f \o "(" \o x \o "," \o y \o ")"

(* The value a hook point passes on: a "fwd" hook replaces it. *)
PassThrough(name, v) == IF "fwd" \in hooks[name] THEN App("patch", v) ELSE v

(* The hooked run's frame after value v reached hook point name: a "cache"  *)
(* hook stores it, without its batch dimension if so asked.                 *)
RunAfterHook(name, v) ==
    IF run.active /\ "cache" \in hooks[name]
      THEN LET stored == IF run.hrm_remove_batch_dim THEN v \o "[0]" ELSE v
           IN  [run EXCEPT !.cache =
                   [n \in (DOMAIN run.cache) \cup {name} |->
                       IF n = name THEN stored ELSE run.cache[n]]]
      ELSE run

(* The user attaches a permanent hook to a hook point. *)
PermaHookPoints == {"hook_full_embed"}

AddPermaHook ==
    /\ pc = "idle"
    /\ built
    /\ \E h \in PermaHookPoints \cap hook_dict :
          /\ "perma" \notin hooks[h]
          /\ hooks' = [hooks EXCEPT ![h] = @ \cup {"perma"}]
    /\ UNCHANGED <<pc, args, locals, cfg, built, tokenizer, modules, hook_dict, log, ret, run, fm>>

----------------------------------------------------------------------------
(* HookedEncoderDecoder.forward *)

Masks(npos) == {None} \cup {Some(m) : m \in [1 .. npos -> {0, 1}]}

FwdArgs(caller) ==
    UNION {
      [op : {"forward"}, caller : {caller},
       input : {"input"}, npos : {n},
       decoder_input : {"decoder_input"},
       return_type : {None, Some("logits")},
       one_zero_attention_mask : Masks(n)] : n \in 1 .. MaxPos }

FwdLocals ==
    [tokens |-> "", device |-> "", resid |-> "", mask |-> None, decoder_resid |-> "",
     i |-> 0]

FwdPcs == {"fwd_tokens", "fwd_embed", "fwd_mask", "fwd_encoder", "fwd_decoder_embed",
           "fwd_decoder", "fwd_return"}

(* forward hands outcome to its caller: the user, or the hooked run. *)
FwdFinish(outcome) ==
    /\ locals' = NoLocals
    /\ IF args.caller = "user"
         THEN /\ pc' = "done"
              /\ ret' = outcome
              /\ UNCHANGED <<args, run>>
         ELSE /\ pc' = "hrm_exit"
              /\ run' = [run EXCEPT !.out = outcome]
              /\ args' = NoArgs
              /\ UNCHANGED ret

CallForward ==
    /\ pc = "idle"
    /\ built
    /\ \E a \in FwdArgs("user") : args' = a
    /\ locals' = FwdLocals
    /\ pc' = "fwd_tokens"
    /\ log' = <<>>
    /\ ret' = NoRet
    /\ UNCHANGED <<cfg, built, tokenizer, modules, hook_dict, hooks, run, fm>>

(* lines 140-145: tokens = input, moved to the model's device if they are   *)
(* on another one (the mask is moved with them).                            *)
FwdTokens ==
    /\ pc = "fwd_tokens"
    /\ \E device \in Devices :
          locals' = [locals EXCEPT
             !.tokens = args.input,
             !.device = IF device # cfg.device THEN cfg.device ELSE device]
    /\ pc' = "fwd_embed"
    /\ UNCHANGED <<args, cfg, built, tokenizer, modules, hook_dict, hooks, log, ret, run, fm>>

(* line 147: resid = self.hook_full_embed(self.embed(tokens)) *)
FwdEmbed ==
    /\ pc = "fwd_embed"
    /\ LET e == App("embed", locals.tokens)
       IN  /\ log' = log \o <<[call |-> "embed", x |-> locals.tokens],
                              [call |-> "hook_full_embed", x |-> e]>>
           /\ run' = RunAfterHook("hook_full_embed", e)
           /\ locals' = [locals EXCEPT !.resid = PassThrough("hook_full_embed", e)]
    /\ pc' = "fwd_mask"
    /\ UNCHANGED <<args, cfg, built, tokenizer, modules, hook_dict, hooks, ret, fm>>

(* lines 149-154: mask = repeat(1 - one_zero_attention_mask, ...) or None *)
FwdMask ==
    /\ pc = "fwd_mask"
    /\ locals' = [locals EXCEPT
          !.mask = IF args.one_zero_attention_mask # None
                     THEN Some([p \in 1 .. args.npos |->
                                  1 - args.one_zero_attention_mask.val[p]])
                     ELSE None,
          !.i = 0]
    /\ pc' = "fwd_encoder"
    /\ UNCHANGED <<args, cfg, built, tokenizer, modules, hook_dict, hooks, log, ret, run, fm>>

(* The additive attention mask an encoder block is called with at line 157: *)
(* encoder_block(resid) passes none.                                        *)
EncoderBlockMask(l) == None

(* The positions a block's attention attends to: all of them without a     *)
(* mask; with an additive mask, those whose entry is 0.                     *)
Attended(mask, npos) ==
    IF mask = None THEN 1 .. npos ELSE {p \in 1 .. npos : mask.val[p] = 0}

(* lines 156-157: one encoder block *)
FwdEncoder ==
    /\ pc = "fwd_encoder"
    /\ locals.i < cfg.n_layers
    /\ LET name == "encoder." \o ToString(locals.i)
           m == EncoderBlockMask(locals)
           out == App(name, locals.resid)
           hp == name \o ".hook_resid_post"
       IN  /\ log' = Append(log, [call |-> "encoder", idx |-> locals.i, x |-> locals.resid,
                                  mask |-> m, attended |-> Attended(m, args.npos)])
           /\ run' = RunAfterHook(hp, out)
           /\ locals' = [locals EXCEPT !.resid = PassThrough(hp, out), !.i = @ + 1]
    /\ UNCHANGED <<pc, args, cfg, built, tokenizer, modules, hook_dict, hooks, ret, fm>>

(* line 159: resid = self.encoder_final_ln(resid) *)
FwdEncoderLn ==
    /\ pc = "fwd_encoder"
    /\ locals.i = cfg.n_layers
    /\ log' = Append(log, [call |-> "encoder_final_ln", x |-> locals.resid])
    /\ locals' = [locals EXCEPT !.resid = App("encoder_final_ln", locals.resid)]
    /\ pc' = "fwd_decoder_embed"
    /\ UNCHANGED <<args, cfg, built, tokenizer, modules, hook_dict, hooks, ret, run, fm>>

(* line 161: decoder_resid = self.embed(decoder_input) *)
FwdDecoderEmbed ==
    /\ pc = "fwd_decoder_embed"
    /\ log' = Append(log, [call |-> "embed", x |-> args.decoder_input])
    /\ locals' = [locals EXCEPT !.decoder_resid = App("embed", args.decoder_input), !.i = 0]
    /\ pc' = "fwd_decoder"
    /\ UNCHANGED <<args, cfg, built, tokenizer, modules, hook_dict, hooks, ret, run, fm>>

(* The encoder output a decoder block is called with at line 164:          *)
(* decoder_block(decoder_resid, resid), resid being what line 159 assigned. *)
DecoderBlockEncoderInput_Embedding(l) == App("embed", l.tokens)

DecoderBlockEncoderInput(l) == l.resid

(* lines 163-164: one decoder block *)
FwdDecoder ==
    /\ pc = "fwd_decoder"
    /\ locals.i < cfg.n_layers
    /\ LET name == "decoder." \o ToString(locals.i)
           enc == DecoderBlockEncoderInput(locals)
           out == App2(name, locals.decoder_resid, enc)
           hp == name \o ".hook_resid_post"
       IN  /\ log' = Append(log, [call |-> "decoder", idx |-> locals.i,
                                  x |-> locals.decoder_resid, enc |-> enc])
           /\ run' = RunAfterHook(hp, out)
           /\ locals' = [locals EXCEPT !.decoder_resid = PassThrough(hp, out), !.i = @ + 1]
    /\ UNCHANGED <<pc, args, cfg, built, tokenizer, modules, hook_dict, hooks, ret, fm>>

(* line 166: decoder_resid = self.decoder_final_ln(decoder_resid) *)
FwdDecoderLn ==
    /\ pc = "fwd_decoder"
    /\ locals.i = cfg.n_layers
    /\ log' = Append(log, [call |-> "decoder_final_ln", x |-> locals.decoder_resid])
    /\ locals' = [locals EXCEPT !.decoder_resid = App("decoder_final_ln", locals.decoder_resid)]
    /\ pc' = "fwd_return"
    /\ UNCHANGED <<args, cfg, built, tokenizer, modules, hook_dict, hooks, ret, run, fm>>

(* line 167: return_type is None *)
ReturnTypeIsNone_Never(return_type) == FALSE

ReturnTypeIsNone(return_type) == return_type = None

(* lines 167-171: return None, or the logits unembed computes *)
FwdReturn ==
    /\ pc = "fwd_return"
    /\ IF ReturnTypeIsNone(args.return_type)
         THEN /\ log' = log
              /\ FwdFinish(Return("None"))
         ELSE /\ log' = Append(log, [call |-> "unembed", x |-> locals.decoder_resid])
              /\ FwdFinish(Return(App("unembed", locals.decoder_resid)))
    /\ UNCHANGED <<cfg, built, tokenizer, modules, hook_dict, hooks, fm>>

(* A component or a hook raises during the forward pass. *)
FwdRaise ==
    /\ pc \in FwdPcs
    /\ FwdFinish(Raise("RuntimeError", "forward"))
    /\ UNCHANGED <<cfg, built, tokenizer, modules, hook_dict, hooks, log, fm>>

----------------------------------------------------------------------------
(* HookedEncoderDecoder.run_with_cache, and the hooked run of              *)
(* HookedRootModule underneath it.                                          *)

EmptyDict == [n \in {} |-> ""]

RunFrame(op, a, rco, rbd, fwd_hooks) ==
    [active |-> TRUE, op |-> op, fwd_args |-> a,
     kwargs |-> [return_cache_object |-> rco, remove_batch_dim |-> rbd],
     return_cache_object |-> Default(rco, TRUE),
     remove_batch_dim |-> Default(rbd, FALSE),
     hrm_remove_batch_dim |-> FALSE, fwd_hooks |-> fwd_hooks,
     cache |-> EmptyDict, out |-> NoRet]

CallRunWithCache ==
    /\ pc = "idle"
    /\ built
    /\ \E a \in FwdArgs("run"), rco \in OptBool, rbd \in OptBool :
          run' = RunFrame("run_with_cache", a, rco, rbd, {})
    /\ pc' = "rwc_super"
    /\ log' = <<>>
    /\ ret' = NoRet
    /\ UNCHANGED <<args, locals, cfg, built, tokenizer, modules, hook_dict, hooks, fm>>

(* The remove_batch_dim keyword lines 196-198 pass on to the underlying run. *)
ForwardedRemoveBatchDim(remove_batch_dim) == remove_batch_dim

(* lines 196-198: the call of run_with_cache of the superclass *)
RwcSuper ==
    /\ pc = "rwc_super"
    /\ LET rbd == ForwardedRemoveBatchDim(run.remove_batch_dim)
       IN  /\ log' = Append(log, [call |-> "HookedRootModule.run_with_cache",
                                  remove_batch_dim |-> rbd])
           /\ run' = [run EXCEPT !.hrm_remove_batch_dim = rbd]
    /\ pc' = "hrm_enter"
    /\ UNCHANGED <<args, locals, cfg, built, tokenizer, modules, hook_dict, hooks, ret, fm>>

(* run_with_hooks of HookedRootModule: forward with the given hooks attached. *)
CallRunWithHooks ==
    /\ pc = "idle"
    /\ built
    /\ \E a \in FwdArgs("run"), h \in hook_dict :
          run' = RunFrame("run_with_hooks", a, None, None, {h})
    /\ pc' = "hrm_enter"
    /\ log' = <<>>
    /\ ret' = NoRet
    /\ UNCHANGED <<args, locals, cfg, built, tokenizer, modules, hook_dict, hooks, fm>>

(* The hooks a hooked run attaches before the forward pass. *)
HooksAdded(frame, h) ==
    IF frame.op = "run_with_cache" THEN {"cache"}
    ELSE IF h \in frame.fwd_hooks THEN {"fwd"} ELSE {}

(* The hooked run attaches its hooks and calls forward. *)
HrmEnter ==
    /\ pc = "hrm_enter"
    /\ hooks' = [h \in DOMAIN hooks |-> hooks[h] \cup HooksAdded(run, h)]
    /\ log' = Append(log, Ev("add_hooks"))
    /\ args' = run.fwd_args
    /\ locals' = FwdLocals
    /\ pc' = "fwd_tokens"
    /\ UNCHANGED <<cfg, built, tokenizer, modules, hook_dict, ret, run, fm>>

(* The hooks left on a hook point when the hooked run is over, whether the  *)
(* forward pass returned or raised.                                         *)
HooksAfterRun_KeptOnRaise(hs, outcome) ==
    IF outcome.kind = "raise" THEN hs ELSE hs \ TempHooks

HooksAfterRun(hs, outcome) == hs \ TempHooks

(* The hooked run is left: its hooks are removed, then the exception goes   *)
(* on, or the output (with the recorded dictionary) is returned.            *)
HrmExit ==
    /\ pc = "hrm_exit"
    /\ hooks' = [h \in DOMAIN hooks |-> HooksAfterRun(hooks[h], run.out)]
    /\ log' = Append(log, Ev("remove_hooks"))
    /\ IF run.out.kind = "raise"
         THEN /\ Fail(run.out.exc, run.out.msg)
              /\ UNCHANGED run
         ELSE IF run.op = "run_with_hooks"
           THEN /\ pc' = "done"
                /\ ret' = run.out
                /\ UNCHANGED <<args, locals, cfg, built, tokenizer, modules, hook_dict, run>>
           ELSE /\ pc' = "rwc_wrap"
                /\ locals' = [out |-> run.out.val, cache_dict |-> run.cache]
                /\ UNCHANGED <<args, cfg, built, tokenizer, modules, hook_dict, ret, run>>
    /\ UNCHANGED fm

(* lines 199-205: the second element of the pair run_with_cache returns *)
WrapCache_Negated(cache_dict, return_cache_object, remove_batch_dim) ==
    IF return_cache_object
      THEN [class |-> "ActivationCache", cache_dict |-> cache_dict, model |-> "self",
            has_batch_dim |-> remove_batch_dim]
      ELSE [class |-> "dict", cache_dict |-> cache_dict]

WrapCache(cache_dict, return_cache_object, remove_batch_dim) ==
    IF return_cache_object
      THEN [class |-> "ActivationCache", cache_dict |-> cache_dict, model |-> "self",
            has_batch_dim |-> ~remove_batch_dim]
      ELSE [class |-> "dict", cache_dict |-> cache_dict]

RwcWrap ==
    /\ pc = "rwc_wrap"
    /\ ret' = Return(<<locals.out,
                       WrapCache(locals.cache_dict, run.return_cache_object,
                                 run.remove_batch_dim)>>)
    /\ pc' = "done"
    /\ locals' = NoLocals
    /\ UNCHANGED <<args, cfg, built, tokenizer, modules, hook_dict, hooks, log, run, fm>>

----------------------------------------------------------------------------
(* HookedEncoderDecoder.from_pretrained *)

(* Checkpoint identifiers: an official name, an alias of it, a directory   *)
(* that exists on disk, and a name nothing knows.                           *)
ModelNames == {"t5-small", "t5-alias", "./checkpoint", "no-such-model"}

PathExists(name) == name = "./checkpoint"

OfficialNames == {"t5-small"}

(* loading.get_official_model_name: the official name of a name or alias.  *)
IsKnownName(name) == name \in OfficialNames \cup {"t5-alias"}

get_official_model_name(name) == IF name = "t5-alias" THEN "t5-small" ELSE name

(* kwargs.get(key, False) of an optional keyword argument *)
Get(kw) == Default(kw, FALSE)

FpArgs ==
    [op : {"from_pretrained"}, model_name : ModelNames,
     load_in_8bit : OptBool, load_in_4bit : OptBool,
     torch_dtype : {None, Some("float16")},
     tokenizer : {"None", "given"},
     move_to_device : BOOLEAN]

CallFromPretrained ==
    /\ pc = "idle"
    /\ ~built
    /\ \E a \in FpArgs : args' = a
    /\ locals' = [dtype |-> "float32", name_or_path |-> "", cfg |-> NoCfg]
    /\ pc' = "fp_warning"
    /\ log' = <<>>
    /\ ret' = NoRet
    /\ UNCHANGED <<cfg, built, tokenizer, modules, hook_dict, hooks, run, fm>>

(* lines 240-249: logging.warning(...) *)
FpWarning ==
    /\ pc = "fp_warning"
    /\ log' = Append(log, Ev("logging.warning"))
    /\ pc' = "fp_quantization"
    /\ UNCHANGED <<args, locals, cfg, built, tokenizer, modules, hook_dict, hooks, ret, run, fm>>

(* lines 251-254: load_in_8bit or load_in_4bit asked for *)
QuantizationRequested_Only8bit(a) == Get(a.load_in_8bit)

QuantizationRequested(a) == Get(a.load_in_8bit) \/ Get(a.load_in_4bit)

(* lines 251-257: the assertion, then dtype taken from torch_dtype *)
FpQuantization ==
    /\ pc = "fp_quantization"
    /\ IF QuantizationRequested(args)
         THEN Fail("AssertionError", "Quantization not supported")
         ELSE /\ locals' = [locals EXCEPT
                     !.dtype = IF args.torch_dtype # None THEN args.torch_dtype.val ELSE @]
              /\ pc' = "fp_name"
              /\ UNCHANGED <<args, cfg, built, tokenizer, modules, hook_dict, ret>>
    /\ UNCHANGED <<hooks, log, run, fm>>

(* line 261: the condition "Path(model_name).exists" is the bound method,  *)
(* not its result, and a method object is true.                            *)
PathExistsCondition(name) == TRUE

(* lines 259-263: name_or_path *)
FpName ==
    /\ pc = "fp_name"
    /\ IF PathExistsCondition(args.model_name)
         THEN /\ locals' = [locals EXCEPT !.name_or_path = args.model_name]
              /\ pc' = "fp_config"
              /\ UNCHANGED <<args, cfg, built, tokenizer, modules, hook_dict, ret, log>>
         ELSE IF IsKnownName(args.model_name)
           THEN /\ locals' = [locals EXCEPT
                      !.name_or_path = get_official_model_name(args.model_name)]
                /\ log' = Append(log, [call |-> "get_official_model_name",
                                       x |-> args.model_name])
                /\ pc' = "fp_config"
                /\ UNCHANGED <<args, cfg, built, tokenizer, modules, hook_dict, ret>>
           ELSE /\ log' = Append(log, [call |-> "get_official_model_name",
                                       x |-> args.model_name])
                /\ Fail("ValueError", "not found in valid official model names")
    /\ UNCHANGED <<hooks, run, fm>>

(* The config loading.get_pretrained_model_config returns for a checkpoint, *)
(* with the n_devices=1 and device passed at lines 265-274.                 *)
PretrainedCfg(name) ==
    [kind |-> "config", n_devices |-> 1, n_layers |-> MaxLayers, n_heads |-> MaxHeads,
     d_vocab |-> GivenVocab, d_vocab_out |-> -1,
     tokenizer_name |-> "t5-small", device |-> "cpu"]

(* The names the loaders can resolve: a path on disk or a known name. *)
Loadable(name) == PathExists(name) \/ IsKnownName(name)

(* lines 265-274: cfg = loading.get_pretrained_model_config(name_or_path, ...) *)
FpConfig ==
    /\ pc = "fp_config"
    /\ log' = Append(log, [call |-> "get_pretrained_model_config",
                           x |-> locals.name_or_path, dtype |-> locals.dtype])
    /\ IF Loadable(locals.name_or_path)
         THEN /\ locals' = [locals EXCEPT !.cfg = PretrainedCfg(locals.name_or_path)]
              /\ pc' = "fp_state_dict"
              /\ UNCHANGED <<args, cfg, built, tokenizer, modules, hook_dict, ret>>
         ELSE Fail("ValueError", "not found in valid official model names")
    /\ UNCHANGED <<hooks, run, fm>>

(* lines 276-278: state_dict = loading.get_pretrained_state_dict(...) *)
FpStateDict ==
    /\ pc = "fp_state_dict"
    /\ log' = Append(log, [call |-> "get_pretrained_state_dict",
                           x |-> locals.name_or_path, dtype |-> locals.dtype])
    /\ pc' = "fp_construct"
    /\ UNCHANGED <<args, locals, cfg, built, tokenizer, modules, hook_dict, hooks, ret, run, fm>>

(* line 280: model = cls(cfg, tokenizer, move_to_device=False) *)
FpConstruct ==
    /\ pc = "fp_construct"
    /\ args' = [op |-> "__init__", caller |-> "from_pretrained", cfg_kind |-> "config",
                n_devices |-> locals.cfg.n_devices, n_layers |-> locals.cfg.n_layers,
                n_heads |-> locals.cfg.n_heads, d_vocab |-> locals.cfg.d_vocab,
                d_vocab_out |-> locals.cfg.d_vocab_out,
                tokenizer_name |-> locals.cfg.tokenizer_name,
                device |-> locals.cfg.device,
                tokenizer |-> args.tokenizer, move_to_device |-> FALSE]
    /\ locals' = [saved_args |-> args, saved_locals |-> locals]
    /\ pc' = "init_cfg"
    /\ UNCHANGED <<cfg, built, tokenizer, modules, hook_dict, hooks, log, ret, run, fm>>

(* line 282: model.load_state_dict(state_dict, strict=False) *)
FpLoadStateDict ==
    /\ pc = "fp_load_state_dict"
    /\ log' = Append(log, Ev("load_state_dict"))
    /\ pc' = "fp_return"
    /\ UNCHANGED <<args, locals, cfg, built, tokenizer, modules, hook_dict, hooks, ret, run, fm>>

(* lines 284-289: model.to(cfg.device) if asked, print, return model *)
FpReturn ==
    /\ pc = "fp_return"
    /\ log' = IF args.move_to_device THEN log \o <<Ev("to"), Ev("print")>>
                                     ELSE Append(log, Ev("print"))
    /\ ret' = Return("model")
    /\ pc' = "done"
    /\ locals' = NoLocals
    /\ UNCHANGED <<args, cfg, built, tokenizer, modules, hook_dict, hooks, run, fm>>

----------------------------------------------------------------------------
(* HookedEncoderDecoder.all_head_labels *)

(* f"{prefix}L{l}H{h}" *)
Label(prefix, l, h) == prefix \o "L" \o ToString(l) \o "H" \o ToString(h)

(* [f(l, h) for l in range(n_layers) for h in range(n_heads)] *)
HeadList(prefix, n_layers, n_heads) ==
    [k \in 1 .. n_layers * n_heads |->
        Label(prefix, (k - 1) \div n_heads, (k - 1) % n_heads)]

all_head_labels(n_layers, n_heads) ==
    HeadList("E", n_layers, n_heads) \o HeadList("D", n_layers, n_heads)

AllHeadLabels ==
    /\ pc = "idle"
    /\ built
    /\ log' = <<Ev("all_head_labels")>>
    /\ ret' = Return(all_head_labels(cfg.n_layers, cfg.n_heads))
    /\ args' = [op |-> "all_head_labels"]
    /\ pc' = "done"
    /\ UNCHANGED <<locals, cfg, built, tokenizer, modules, hook_dict, hooks, run, fm>>

----------------------------------------------------------------------------
(* The caller has the outcome of the finished call and goes on. *)
Discard ==
    /\ pc = "done"
    /\ pc' = "idle"
    /\ log' = <<>>
    /\ ret' = NoRet
    /\ args' = NoArgs
    /\ locals' = NoLocals
    /\ run' = NoRun
    /\ UNCHANGED <<cfg, built, tokenizer, modules, hook_dict, hooks, fm>>

----------------------------------------------------------------------------
NoFM == [phase |-> "off"]

Init ==
    /\ pc = "idle"
    /\ args = NoArgs
    /\ locals = NoLocals
    /\ cfg = NoCfg
    /\ built = FALSE
    /\ tokenizer = "unset"
    /\ modules = <<>>
    /\ hook_dict = {}
    /\ hooks = <<>>
    /\ log = <<>>
    /\ ret = NoRet
    /\ run = NoRun
    /\ fm = NoFM

Next ==
    \/ CallInit
    \/ InitCfg
    \/ InitDevices
    \/ InitTokenizer
    \/ InitVocab
    \/ InitModules
    \/ InitTo
    \/ InitSetup
    \/ AddPermaHook
    \/ CallForward
    \/ FwdTokens
    \/ FwdEmbed
    \/ FwdMask
    \/ FwdEncoder
    \/ FwdEncoderLn
    \/ FwdDecoderEmbed
    \/ FwdDecoder
    \/ FwdDecoderLn
    \/ FwdReturn
    \/ FwdRaise
    \/ CallRunWithCache
    \/ RwcSuper
    \/ CallRunWithHooks
    \/ HrmEnter
    \/ HrmExit
    \/ RwcWrap
    \/ CallFromPretrained
    \/ FpWarning
    \/ FpQuantization
    \/ FpName
    \/ FpConfig
    \/ FpStateDict
    \/ FpConstruct
    \/ FpLoadStateDict
    \/ FpReturn
    \/ AllHeadLabels
    \/ Discard

Spec == Init /\ [][Next]_vars

----------------------------------------------------------------------------
(* Tensors of integers: a shape and the entry at every index. *)

RECURSIVE Indices(_)
Indices(shape) ==
    IF shape = <<>> THEN {<<>>}
    ELSE {<<i>> \o rest : i \in 1 .. Head(shape), rest \in Indices(Tail(shape))}

Tensor(shape, at) == [shape |-> shape, at |-> at]

Scalar(x) == Tensor(<<>>, [idx \in Indices(<<>>) |-> x])

Rank(t) == Len(t.shape)

(* The sequence without its k-th element, and with x put in as the k-th. *)
Without(seq, k) == SubSeq(seq, 1, k - 1) \o SubSeq(seq, k + 1, Len(seq))
WithAt(seq, k, x) == SubSeq(seq, 1, k - 1) \o <<x>> \o SubSeq(seq, k, Len(seq))

(* torch.Tensor.unsqueeze(dim) for a negative dim: a dimension of size 1   *)
(* is put in, counted from the end of the new shape.                        *)
unsqueeze(t, dim) ==
    LET k == Rank(t) + dim + 2
        shape == WithAt(t.shape, k, 1)
    IN  Tensor(shape, [idx \in Indices(shape) |-> t.at[Without(idx, k)]])

(* torch.Tensor.squeeze(dim) for a negative dim: the dimension is removed   *)
(* if its size is 1, and the tensor is left as it is otherwise.             *)
squeeze(t, dim) ==
    LET k == Rank(t) + dim + 1
        shape == Without(t.shape, k)
    IN  IF t.shape[k] = 1
          THEN Tensor(shape, [idx \in Indices(shape) |-> t.at[WithAt(idx, k, 1)]])
          ELSE t

MaxOf(a, b) == IF a >= b THEN a ELSE b

(* The batch dimensions of two operands broadcast against each other,      *)
(* aligned at the right.                                                    *)
BroadcastShape(bx, by) ==
    LET n == MaxOf(Len(bx), Len(by))
        dx(i) == IF i > n - Len(bx) THEN bx[i - (n - Len(bx))] ELSE 1
        dy(i) == IF i > n - Len(by) THEN by[i - (n - Len(by))] ELSE 1
    IN  [i \in 1 .. n |-> MaxOf(dx(i), dy(i))]

(* The batch index of an operand with batch shape bs for result index b. *)
BatchIndex(bs, b) ==
    [i \in 1 .. Len(bs) |-> IF bs[i] = 1 THEN 1 ELSE b[i + (Len(b) - Len(bs))]]

(* The product of two tensors of rank 2 or more, batch dimensions broadcast. *)
BatchedMatmul(x, y) ==
    LET rx == Rank(x)
        ry == Rank(y)
        bx == SubSeq(x.shape, 1, rx - 2)
        by == SubSeq(y.shape, 1, ry - 2)
        bs == BroadcastShape(bx, by)
        nb == Len(bs)
        inner == x.shape[rx]
        entry(idx) ==
            LET b == SubSeq(idx, 1, nb)
                i == idx[nb + 1]
                j == idx[nb + 2]
                sum[k \in 0 .. inner] ==
                    IF k = 0 THEN 0
                    ELSE sum[k - 1] + x.at[BatchIndex(bx, b) \o <<i, k>>]
                                        * y.at[BatchIndex(by, b) \o <<k, j>>]
            IN  sum[inner]
        shape == bs \o <<x.shape[rx - 1], y.shape[ry]>>
    IN  Tensor(shape, [idx \in Indices(shape) |-> entry(idx)])

(* torch.matmul, the @ of two tensors: an operand of rank 1 is made a row  *)
(* (on the left) or a column (on the right) and that dimension is removed  *)
(* from the product.                                                        *)
Matmul(x, y) ==
    LET x2 == IF Rank(x) = 1 THEN unsqueeze(x, -2) ELSE x
        y2 == IF Rank(y) = 1 THEN unsqueeze(y, -1) ELSE y
        p == BatchedMatmul(x2, y2)
        p1 == IF Rank(x) = 1 THEN squeeze(p, -2) ELSE p
    IN  IF Rank(y) = 1 THEN squeeze(p1, -1) ELSE p1

----------------------------------------------------------------------------
(* FactoredMatrix(A, B) times a vector, as the tests of                    *)
(* tests/unit/factored_matrix/test_multiply_by_vector.py exercise it.      *)

MaxDim == 2
MaxBatch == 2
MaxSeed == 1

(* Entries are drawn from 0 .. EntryModulus - 1. *)
EntryModulus == 3

(* The position of an index in row-major order, from 0. *)
RECURSIVE Flat(_, _)
Flat(shape, idx) ==
    IF shape = <<>> THEN 0
    ELSE Flat(SubSeq(shape, 1, Len(shape) - 1), SubSeq(idx, 1, Len(idx) - 1))
            * shape[Len(shape)] + (idx[Len(idx)] - 1)

(* torch.rand(shape): one tensor of the shape for every seed. *)
RandTensor(shape, seed) ==
    Tensor(shape, [idx \in Indices(shape) |->
        ((seed + 1) * (Flat(shape, idx) + 1) + Flat(shape, idx) * Flat(shape, idx))
            % EntryModulus])

(* FactoredMatrix.__matmul__ with a vector: the factorisation is collapsed *)
(* from the right, so the full matrix is never formed.                      *)
FM_matmul_NoSqueeze(A, B, other) == Matmul(A, Matmul(B, unsqueeze(other, -1)))

FM_matmul(A, B, other) == squeeze(Matmul(A, Matmul(B, unsqueeze(other, -1))), -1)

(* FactoredMatrix.__rmatmul__ with a vector:                                *)
(* ((other.unsqueeze(-2) @ self.A) @ self.B).squeeze(-1)                    *)
FM_rmatmul(A, B, other) == squeeze(Matmul(Matmul(unsqueeze(other, -2), A), B), -1)

(* The leading dimensions of the factors: none, or one of size batch. *)
Leading(batch) == IF batch = 0 THEN <<>> ELSE <<batch>>

FMInputs ==
    { [phase |-> "built", batch |-> batch, m |-> m, r |-> r, n |-> n,
       A |-> RandTensor(Leading(batch) \o <<m, r>>, sa),
       B |-> RandTensor(Leading(batch) \o <<r, n>>, sb),
       vector |-> Scalar(0), result |-> Scalar(0), expected |-> Scalar(0)] :
         batch \in 0 .. MaxBatch, m \in 1 .. MaxDim, r \in 1 .. MaxDim, n \in 1 .. MaxDim,
         sa \in 0 .. MaxSeed, sb \in 0 .. MaxSeed }

(* test_left_matmul_by_vector_left, test_left_matmul_by_vector_leading_dim: *)
(* fm @ vector and (a @ b) @ vector                                         *)
TestLeftMatmulByVector ==
    /\ fm.phase = "built"
    /\ \E sv \in 0 .. MaxSeed :
          LET vector == RandTensor(<<fm.n>>, sv)
          IN  fm' = [fm EXCEPT !.phase = "matmul",
                               !.vector = vector,
                               !.result = FM_matmul(fm.A, fm.B, vector),
                               !.expected = Matmul(Matmul(fm.A, fm.B), vector)]
    /\ UNCHANGED modelVars

(* test_right_matmul_by_vector, test_right_matmul_by_vector_leading_dim:    *)
(* vector @ fm and vector @ (a @ b)                                         *)
TestRightMatmulByVector ==
    /\ fm.phase = "built"
    /\ \E sv \in 0 .. MaxSeed :
          LET vector == RandTensor(<<fm.m>>, sv)
          IN  fm' = [fm EXCEPT !.phase = "rmatmul",
                               !.vector = vector,
                               !.result = FM_rmatmul(fm.A, fm.B, vector),
                               !.expected = Matmul(vector, Matmul(fm.A, fm.B))]
    /\ UNCHANGED modelVars

InitFM ==
    /\ pc = "idle"
    /\ args = NoArgs
    /\ locals = NoLocals
    /\ cfg = NoCfg
    /\ built = FALSE
    /\ tokenizer = "unset"
    /\ modules = <<>>
    /\ hook_dict = {}
    /\ hooks = <<>>
    /\ log = <<>>
    /\ ret = NoRet
    /\ run = NoRun
    /\ fm \in FMInputs

NextFM ==
    \/ TestLeftMatmulByVector
    \/ TestRightMatmulByVector

SpecFM == InitFM /\ [][NextFM]_vars

(* C3: fm @ v equals (A @ B) @ v in values and in shape, with and without  *)
(* a leading batch dimension on the factors.                                *)
C3_MatmulByVector ==
    fm.phase = "matmul" =>
        /\ fm.result = fm.expected
        /\ fm.result.shape = Leading(fm.batch) \o <<fm.m>>

C3_Witness ==
    /\ fm.phase = "matmul"
    /\ fm.batch = 2
    /\ fm.m = 2
    /\ fm.r = 2
    /\ fm.n = 2
    /\ fm.result.shape = <<2, 2>>
    /\ \E idx \in Indices(fm.result.shape) : fm.result.at[idx] # 0
    /\ \E i1 \in Indices(fm.result.shape), i2 \in Indices(fm.result.shape) :
          fm.result.at[i1] # fm.result.at[i2]

(* C4: v @ fm equals v @ (A @ B) in values and in shape ([n], or           *)
(* [batch, n] with a leading batch dimension): no extra dimension of       *)
(* size 1.                                                                  *)
C4_RmatmulByVector ==
    fm.phase = "rmatmul" =>
        /\ fm.result = fm.expected
        /\ fm.result.shape = Leading(fm.batch) \o <<fm.n>>

----------------------------------------------------------------------------
(* Properties of the hooked model. *)

NoTempHooks == \A h \in DOMAIN hooks : hooks[h] \cap TempHooks = {}

(* C1: when a hooked run (run_with_cache, run_with_hooks) is over, whether *)
(* forward returned or raised, no hook point carries a hook the run added. *)
C1_HooksRemovedAfterRun ==
    (run.active /\ pc \in {"rwc_wrap", "done"}) => NoTempHooks

(* A run whose forward pass raised is over: its hooks were attached and    *)
(* are gone, the permanent hook of the user is still there.                *)
C1_Witness ==
    /\ pc = "done"
    /\ run.active
    /\ run.op = "run_with_cache"
    /\ ret.kind = "raise"
    /\ Called("add_hooks")
    /\ Called("hook_full_embed")
    /\ NoTempHooks
    /\ "perma" \in hooks["hook_full_embed"]

QuantizationArgs ==
    /\ args.op = "from_pretrained"
    /\ (args.load_in_8bit = Some(TRUE) \/ args.load_in_4bit = Some(TRUE))

(* C5: from_pretrained with load_in_8bit or load_in_4bit true fails with   *)
(* "Quantization not supported" before the config is fetched, before a     *)
(* state dict is loaded and before a model is constructed; none is         *)
(* returned.                                                               *)
C5_QuantizationRejected ==
    QuantizationArgs =>
        /\ pc \in {"fp_warning", "fp_quantization", "done"}
        /\ pc = "done" => ret = Raise("AssertionError", "Quantization not supported")
        /\ ~Called("get_pretrained_model_config")
        /\ ~Called("get_pretrained_state_dict")
        /\ ~Called("get_official_model_name")
        /\ ~Called("HookedRootModule.__init__")
        /\ ~built
        /\ modules = <<>>

C5_Witness ==
    /\ pc = "done"
    /\ args.op = "from_pretrained"
    /\ args.load_in_8bit = Some(FALSE)
    /\ args.load_in_4bit = Some(TRUE)
    /\ ret = Raise("AssertionError", "Quantization not supported")

(* The forward pass that has just returned or raised, and its outcome. *)
FwdOver == (pc = "done" /\ args.op = "forward") \/ pc = "hrm_exit"
FwdOverArgs == IF pc = "hrm_exit" THEN run.fwd_args ELSE args
FwdOutcome == IF pc = "hrm_exit" THEN run.out ELSE ret

CountCalls(name) == Cardinality({i \in 1 .. Len(log) : log[i].call = name})

BlocksRan(name) ==
    \A l \in Range(cfg.n_layers) :
        Cardinality({i \in 1 .. Len(log) : log[i].call = name /\ log[i].idx = l}) = 1

(* C7: forward with return_type None returns None without invoking         *)
(* unembed, while the embedding, every encoder and decoder block and both  *)
(* final layer norms run; with return_type 'logits' it returns unembed of  *)
(* the decoder residual decoder_final_ln produced.                         *)
C7_ReturnType ==
    (FwdOver /\ FwdOutcome.kind = "return") =>
        /\ CountCalls("embed") = 2
        /\ BlocksRan("encoder")
        /\ BlocksRan("decoder")
        /\ CountCalls("encoder_final_ln") = 1
        /\ CountCalls("decoder_final_ln") = 1
        /\ IF FwdOverArgs.return_type = None
             THEN /\ FwdOutcome.val = "None"
                  /\ ~Called("unembed")
             ELSE /\ CountCalls("unembed") = 1
                  /\ log[Len(log)].call = "unembed"
                  /\ log[Len(log) - 1].call = "decoder_final_ln"
                  /\ log[Len(log)].x = App("decoder_final_ln", log[Len(log) - 1].x)
                  /\ FwdOutcome.val = App("unembed", log[Len(log)].x)

C7_Witness ==
    /\ pc = "done"
    /\ args.op = "forward"
    /\ args.return_type = None
    /\ ret = Return("None")
    /\ Called("decoder_final_ln")
    /\ ~Called("unembed")

(* C9: run_with_cache returns the model output paired with an              *)
(* ActivationCache when return_cache_object is true and with the plain     *)
(* dictionary otherwise; the ActivationCache holds exactly the dictionary  *)
(* the underlying run recorded and its has_batch_dim is the negation of    *)
(* the remove_batch_dim forwarded to the underlying run.                   *)
C9_RunWithCacheResult ==
    (pc = "done" /\ run.active /\ run.op = "run_with_cache" /\ ret.kind = "return") =>
        /\ log[1].call = "HookedRootModule.run_with_cache"
        /\ log[1].remove_batch_dim = (run.kwargs.remove_batch_dim = Some(TRUE))
        /\ ret.val[1] = run.out.val
        /\ ret.val[2].cache_dict = run.cache
        /\ DOMAIN run.cache = hook_dict
        /\ IF run.kwargs.return_cache_object \in {None, Some(TRUE)}
             THEN /\ ret.val[2].class = "ActivationCache"
                  /\ ret.val[2].has_batch_dim = ~log[1].remove_batch_dim
             ELSE ret.val[2] = [class |-> "dict", cache_dict |-> run.cache]

C9_Witness ==
    /\ pc = "done"
    /\ run.active
    /\ run.op = "run_with_cache"
    /\ run.kwargs.return_cache_object = None
    /\ run.kwargs.remove_batch_dim = Some(TRUE)
    /\ ret.kind = "return"
    /\ ret.val[2].class = "ActivationCache"
    /\ ret.val[2].has_batch_dim = FALSE
    /\ ret.val[2].cache_dict["hook_full_embed"] = "embed(input)[0]"

NothingConstructed ==
    /\ ~built
    /\ tokenizer = "unset"
    /\ modules = <<>>
    /\ hook_dict = {}
    /\ ~Called("AutoTokenizer.from_pretrained")
    /\ ~Called("to")
    /\ ~Called("setup")

(* C10: constructing the model with a string as cfg raises a ValueError    *)
(* that points to from_pretrained, and with cfg.n_devices other than 1 it  *)
(* fails with "Multiple devices not supported for HookedEncoderDecoder";   *)
(* in both cases before a tokenizer is loaded, before any submodule or     *)
(* hook point is created and before setup() runs.                          *)
C10_ConstructorRejects ==
    /\ (args.op = "__init__" /\ args.cfg_kind = "str") =>
          /\ pc \in {"init_cfg", "done"}
          /\ NothingConstructed
          /\ pc = "done" =>
                ret = Raise("ValueError",
                            "Please pass in a config dictionary or HookedTransformerConfig object. If you want to load a pretrained model, use HookedEncoderDecoder.from_pretrained() instead.")
    /\ (args.op = "__init__" /\ args.cfg_kind # "str" /\ args.n_devices # 1) =>
          /\ pc \in {"init_cfg", "init_devices", "done"}
          /\ NothingConstructed
          /\ pc = "done" =>
                ret = Raise("AssertionError",
                            "Multiple devices not supported for HookedEncoderDecoder")

C10_Witness ==
    /\ pc = "done"
    /\ args.op = "__init__"
    /\ args.cfg_kind = "dict"
    /\ args.n_devices = 2
    /\ args.tokenizer_name = "t5-small"
    /\ ret.kind = "raise"
    /\ ret.exc = "AssertionError"
    /\ Called("HookedTransformerConfig")

(* The positions one_zero_attention_mask asks attention to attend to. *)
ToAttend(one_zero_attention_mask, npos) ==
    IF one_zero_attention_mask = None
      THEN 1 .. npos
      ELSE {p \in 1 .. npos : one_zero_attention_mask.val[p] = 1}

(* C6: in forward, the tokens whose one_zero_attention_mask entry is 0 are *)
(* ignored by the attention of the encoder blocks and those whose entry is *)
(* 1 are attended to; without a mask all tokens are attended to.           *)
C6_MaskReachesAttention ==
    (args.op = "forward") =>
        \A i \in 1 .. Len(log) :
            log[i].call = "encoder" =>
                log[i].attended = ToAttend(args.one_zero_attention_mask, args.npos)

(* C8: all_head_labels returns strings of the format "L{l}H{h}", l a layer *)
(* index and h a head index.                                               *)
C8_HeadLabelFormat ==
    (pc = "done" /\ args.op = "all_head_labels") =>
        \A k \in 1 .. Len(ret.val) :
            \E l \in Range(cfg.n_layers), h \in Range(cfg.n_heads) :
                ret.val[k] = "L" \o ToString(l) \o "H" \o ToString(h)

(* The forward pass in progress or just over: its events are on the log. *)
FwdRunning == pc \in FwdPcs \/ FwdOver

(* What a block hands on: its result, as its hook_resid_post passes it on. *)
BlockOutput(name, result) == PassThrough(name \o ".hook_resid_post", result)

EncoderOutput(e) == BlockOutput("encoder." \o ToString(e.idx), App("encoder." \o ToString(e.idx), e.x))

DecoderOutput(e) ==
    BlockOutput("decoder." \o ToString(e.idx), App2("decoder." \o ToString(e.idx), e.x, e.enc))

(* C11: in every forward call the encoder token embedding passes through   *)
(* hook_full_embed exactly once, before any encoder block; the encoder     *)
(* blocks run in index order, each on the output of the one before;        *)
(* encoder_final_ln runs once, after the last encoder block; only then the *)
(* decoder blocks run in index order, each receiving the final-normalized  *)
(* encoder output; decoder_final_ln runs once after the last decoder block *)
(* and before unembed; the decoder input embedding does not pass through   *)
(* hook_full_embed.                                                        *)
C11_ForwardOrder ==
    FwdRunning =>
        /\ CountCalls("hook_full_embed") <= 1
        /\ CountCalls("encoder_final_ln") <= 1
        /\ CountCalls("decoder_final_ln") <= 1
        /\ (FwdOver /\ FwdOutcome.kind = "return") =>
              /\ CountCalls("hook_full_embed") = 1
              /\ CountCalls("encoder_final_ln") = 1
              /\ CountCalls("decoder_final_ln") = 1
              /\ BlocksRan("encoder")
              /\ BlocksRan("decoder")
        /\ \A i \in 1 .. Len(log) :
              LET e == log[i]
                  prev == log[i - 1]
              IN  /\ e.call = "hook_full_embed" =>
                        /\ i > 1
                        /\ prev.call = "embed"
                        /\ prev.x = FwdOverArgs.input
                        /\ e.x = App("embed", FwdOverArgs.input)
                  /\ e.call = "encoder" =>
                        /\ i > 1
                        /\ e.idx \in Range(cfg.n_layers)
                        /\ IF e.idx = 0
                             THEN /\ prev.call = "hook_full_embed"
                                  /\ e.x = PassThrough("hook_full_embed", prev.x)
                             ELSE /\ prev.call = "encoder"
                                  /\ prev.idx = e.idx - 1
                                  /\ e.x = EncoderOutput(prev)
                  /\ e.call = "encoder_final_ln" =>
                        /\ i > 1
                        /\ prev.call = "encoder"
                        /\ prev.idx = cfg.n_layers - 1
                        /\ e.x = EncoderOutput(prev)
                  /\ (e.call = "embed" /\ e.x = FwdOverArgs.decoder_input) =>
                        /\ i > 1
                        /\ prev.call = "encoder_final_ln"
                        /\ i < Len(log) => log[i + 1].call = "decoder"
                  /\ e.call = "decoder" =>
                        /\ i > 2
                        /\ e.idx \in Range(cfg.n_layers)
                        /\ \E j \in 1 .. (i - 1) :
                              /\ log[j].call = "encoder_final_ln"
                              /\ e.enc = App("encoder_final_ln", log[j].x)
                        /\ IF e.idx = 0
                             THEN /\ prev.call = "embed"
                                  /\ prev.x = FwdOverArgs.decoder_input
                                  /\ e.x = App("embed", prev.x)
                             ELSE /\ prev.call = "decoder"
                                  /\ prev.idx = e.idx - 1
                                  /\ e.x = DecoderOutput(prev)
                  /\ e.call = "decoder_final_ln" =>
                        /\ i > 1
                        /\ prev.call = "decoder"
                        /\ prev.idx = cfg.n_layers - 1
                        /\ e.x = DecoderOutput(prev)
                  /\ e.call = "unembed" =>
                        /\ i > 1
                        /\ prev.call = "decoder_final_ln"
                        /\ e.x = App("decoder_final_ln", prev.x)

(* A two-layer forward pass inside run_with_hooks patching the output of   *)
(* encoder block 0 has returned logits: decoder block 1 ran on the output  *)
(* of decoder block 0 and on the final-normalized encoder output.          *)
C11_Witness ==
    /\ pc = "hrm_exit"
    /\ run.op = "run_with_hooks"
    /\ run.fwd_hooks = {"encoder.0.hook_resid_post"}
    /\ run.out.kind = "return"
    /\ cfg.n_layers = 2
    /\ \E i \in 1 .. Len(log) :
          /\ log[i].call = "decoder"
          /\ log[i].idx = 1
          /\ log[i].enc = "encoder_final_ln(encoder.1(patch(encoder.0(embed(input)))))"
          /\ log[i].x = "decoder.0(embed(decoder_input),"
                          \o "encoder_final_ln(encoder.1(patch(encoder.0(embed(input))))))"

(* The identifier a resolution by existence of a local path hands to the   *)
(* loaders for a name that can be resolved.                                *)
ResolvedByPath(name) == IF PathExists(name) THEN name ELSE get_official_model_name(name)

(* C12: from_pretrained resolves the checkpoint identifier by existence of *)
(* a local path: an existing path is used unchanged; otherwise the         *)
(* identifier passed to get_pretrained_model_config and                    *)
(* get_pretrained_state_dict is get_official_model_name(model_name), so an *)
(* unknown name is rejected by that lookup before any config or weights    *)
(* are fetched.                                                            *)
C12_NameResolution ==
    (args.op = "from_pretrained") =>
        LET name == args.model_name
        IN  /\ \A i \in 1 .. Len(log) :
                  log[i].call \in {"get_pretrained_model_config", "get_pretrained_state_dict"} =>
                      /\ Loadable(name)
                      /\ log[i].x = ResolvedByPath(name)
            /\ (~Loadable(name) /\ pc = "done" /\ ~QuantizationRequested(args)) =>
                  /\ ret.kind = "raise"
                  /\ Called("get_official_model_name")
                  /\ ~Called("get_pretrained_model_config")

====
